---- MODULE Spec2Model ----
(***************************************************************************)
(* Heightmap-to-mesh chunk generator and boundary tracer of                *)
(* src/world/map/terrain/generation.rs, driven by the chunk loop of        *)
(* src/world/map/terrain/mod.rs (spawn_terrain_chunks), and the border     *)
(* classifier of src/world/map/terrain/border_generator.rs (make_borders). *)
(*                                                                         *)
(* Heights are kept exact: a vertex height is stored as y12 = 12 * (mean   *)
(* of the contributing samples), i.e. in units of height_scale / 12, so    *)
(* that means over 1..4 samples stay integers.  Accumulated normals are    *)
(* kept in the matching units (x and z components in height_scale / 12,    *)
(* the y component in 1), and a normalised normal is kept as the primitive *)
(* integer vector of its direction.                                        *)
(***************************************************************************)
EXTENDS Integers, Sequences, FiniteSets, TLC

\* ------------------------------------------------------------------ bounds
\* Scaled stand-in for chunk_size = 128 (generation.rs:14, mod.rs:20).
ChunkSize == 2
\* Scaled stand-ins for the world extents 8192 x 4096 (mod.rs:18-19).
WorldWidth == 8
WorldHeight == 4
\* Rasters of every shape w x h with w * h <= MaxCells are enumerated.
MaxCells == 5
\* Samples of the enumerated rasters range over 0..MaxV.
MaxV == 2
\* Chunk size of the runs over the island rasters and the 4x4 scenario.
BigChunk == 2 * ChunkSize

VOID_HEIGHT == 0

Min(a, b) == IF a < b THEN a ELSE b

\* ------------------------------------------------------------------ raster
Coords(w, h) == (0 .. w - 1) \X (0 .. h - 1)

Shapes ==
  { s \in (0 .. MaxCells) \X (0 .. MaxCells) :
      /\ s[1] * s[2] <= MaxCells
      /\ (s[1] = 0 => s[2] <= 1)
      /\ (s[2] = 0 => s[1] <= 1) }

Rasters ==
  UNION { [w : {s[1]}, h : {s[2]}, px : [Coords(s[1], s[2]) -> 0 .. MaxV]] :
          s \in Shapes }

\* A raster of side BigChunk + 1 holding one filled n x n square of value v
\* whose top-left pixel is (ox, oz), every other pixel void.
IslandRaster(n, ox, oz, v) ==
  [w |-> BigChunk + 1, h |-> BigChunk + 1,
   px |-> [p \in Coords(BigChunk + 1, BigChunk + 1) |->
             IF /\ ox <= p[1] /\ p[1] < ox + n
                /\ oz <= p[2] /\ p[2] < oz + n
             THEN v ELSE VOID_HEIGHT]]

\* The island lies inside the window of the chunk at (0, 0) with a void
\* pixel on every side of it.
IslandPlacements ==
  { q \in (1 .. BigChunk - 1) \X (1 .. BigChunk - 1) \X (1 .. BigChunk - 1) :
      q[2] + q[1] <= BigChunk /\ q[3] + q[1] <= BigChunk }

IslandRasters ==
  { IslandRaster(q[1], q[2], q[3], v) : q \in IslandPlacements, v \in 1 .. MaxV }

\* Rasters of side BigChunk + 1 whose non-void pixels, all of value 1, lie
\* in rows 1 .. 3 and columns 0 .. ChunkSize: several separate islands of
\* one or more pixels inside the window of the chunk at (0, 0).
StripCells == (0 .. ChunkSize) \X (1 .. 3)

StripRasters ==
  { [w |-> BigChunk + 1, h |-> BigChunk + 1,
     px |-> [p \in Coords(BigChunk + 1, BigChunk + 1) |->
               IF p \in on THEN 1 ELSE VOID_HEIGHT]] :
    on \in SUBSET StripCells }

\* The 4x4 raster of the end-to-end scenario: 100 everywhere but (0,0) = 0.
ScenarioRaster ==
  [w |-> 4, h |-> 4,
   px |-> [p \in Coords(4, 4) |-> IF p = <<0, 0>> THEN VOID_HEIGHT ELSE 100]]

InRaster(img, x, z) == x >= 0 /\ x < img.w /\ z >= 0 /\ z < img.h

get_pixel(img, x, z) == img.px[<<x, z>>]

\* ------------------------------------------------- generate_terrain_mesh
saturating_sub(a, b) == IF a >= b THEN a - b ELSE 0

\* Bounds without the extra sample at the far end of the expanded window.
Bounds_NoEndRing(sx, sz, cs, img) ==
  [sx  |-> sx, sz |-> sz, cs |-> cs,
   esx |-> saturating_sub(sx, 1),
   esz |-> saturating_sub(sz, 1),
   eex |-> Min(sx + cs, img.w),
   eez |-> Min(sz + cs, img.h)]

\* Lines 18-21: the expanded window of the chunk at (sx, sz).
Bounds(sx, sz, cs, img) ==
  [sx  |-> sx, sz |-> sz, cs |-> cs,
   esx |-> saturating_sub(sx, 1),
   esz |-> saturating_sub(sz, 1),
   eex |-> Min(sx + cs + 1, img.w),
   eez |-> Min(sz + cs + 1, img.h)]

\* The bounds test with < in place of <=.
Degenerate_Strict(b) == b.eex < b.esx \/ b.eez < b.esz

\* Line 24.
Degenerate(b) == b.eex <= b.esx \/ b.eez <= b.esz

\* Lines 34-35: chunk_size.min(size - start).  The subtraction is unsigned:
\* with start > size it panics in a checked build and wraps to a value far
\* above chunk_size in an unchecked one, where min() then yields chunk_size.
PrecheckSpan(start, cs, size) ==
  IF size >= start THEN Min(cs, size - start) ELSE cs

\* The subtraction of line 34 is evaluated once; that of line 35 once per
\* row of the scan.
PrecheckUnderflow(b, img) ==
  \/ img.h < b.sz
  \/ PrecheckSpan(b.sz, b.cs, img.h) > 0 /\ img.w < b.sx

\* The pre-check scanning the expanded window.
PrecheckScan_Expanded(b, img) ==
  LET zspan == b.eez - b.esz
      xspan == b.eex - b.esx
  IN  [i \in 1 .. zspan * xspan |->
         <<b.esx + ((i - 1) % xspan), b.esz + ((i - 1) \div xspan)>>]

\* Lines 34-44: the pixels the pre-check visits, row by row, in order.
PrecheckScan(b, img) ==
  LET zspan == PrecheckSpan(b.sz, b.cs, img.h)
      xspan == IF img.h < b.sz THEN 0 ELSE PrecheckSpan(b.sx, b.cs, img.w)
  IN  [i \in 1 .. zspan * xspan |->
         <<b.sx + ((i - 1) % xspan), b.sz + ((i - 1) \div xspan)>>]

\* The scan stops at the first non-void pixel (break) or at the first pixel
\* outside the raster (get_pixel panics).
PrecheckStop(b, img) ==
  LET scan == PrecheckScan(b, img)
      hits == { i \in 1 .. Len(scan) :
                  \/ ~InRaster(img, scan[i][1], scan[i][2])
                  \/ get_pixel(img, scan[i][1], scan[i][2]) /= VOID_HEIGHT }
  IN  IF hits = {} THEN 0
      ELSE CHOOSE i \in hits : \A j \in hits : i <= j

PrecheckReads(b, img) ==
  LET scan == PrecheckScan(b, img)
      stop == PrecheckStop(b, img)
  IN  { scan[i] : i \in 1 .. (IF stop = 0 THEN Len(scan) ELSE stop) }

has_terrain(b, img) ==
  LET scan == PrecheckScan(b, img)
      stop == PrecheckStop(b, img)
  IN  stop /= 0 /\ InRaster(img, scan[stop][1], scan[stop][2])

\* Lines 69-85 and 93-116: the four samples around lattice point (x, z) that
\* are looked at, each with its guard.
SampleTL(x, z, b, img) ==
  /\ x > b.esx /\ z > b.esz /\ x - 1 < img.w /\ z - 1 < img.h
  /\ get_pixel(img, x - 1, z - 1) /= VOID_HEIGHT
SampleTR(x, z, b, img) ==
  /\ x < b.eex /\ z > b.esz /\ x < img.w /\ z - 1 < img.h
  /\ get_pixel(img, x, z - 1) /= VOID_HEIGHT
SampleBL(x, z, b, img) ==
  /\ x > b.esx /\ z < b.eez /\ x - 1 < img.w /\ z < img.h
  /\ get_pixel(img, x - 1, z) /= VOID_HEIGHT
SampleBR(x, z, b, img) ==
  /\ x < b.eex /\ z < b.eez /\ x < img.w /\ z < img.h
  /\ get_pixel(img, x, z) /= VOID_HEIGHT

\* A vertex only at the top-left corner of a non-void pixel.
is_needed_BottomRightOnly(x, z, b, img) == SampleBR(x, z, b, img)

is_needed(x, z, b, img) ==
  \/ SampleTL(x, z, b, img) \/ SampleTR(x, z, b, img)
  \/ SampleBL(x, z, b, img) \/ SampleBR(x, z, b, img)

height_sum(x, z, b, img) ==
    (IF SampleTL(x, z, b, img) THEN get_pixel(img, x - 1, z - 1) ELSE 0)
  + (IF SampleTR(x, z, b, img) THEN get_pixel(img, x, z - 1) ELSE 0)
  + (IF SampleBL(x, z, b, img) THEN get_pixel(img, x - 1, z) ELSE 0)
  + (IF SampleBR(x, z, b, img) THEN get_pixel(img, x, z) ELSE 0)

count(x, z, b, img) ==
    (IF SampleTL(x, z, b, img) THEN 1 ELSE 0)
  + (IF SampleTR(x, z, b, img) THEN 1 ELSE 0)
  + (IF SampleBL(x, z, b, img) THEN 1 ELSE 0)
  + (IF SampleBR(x, z, b, img) THEN 1 ELSE 0)

\* The mean taken over four samples whatever the count.
height12_MeanOfFour(x, z, b, img) ==
  IF count(x, z, b, img) > 0 THEN height_sum(x, z, b, img) * 3 ELSE 0

\* Lines 119-123: 12 * (height_sum / count); the height is this times
\* height_scale / 12.
height12(x, z, b, img) ==
  IF count(x, z, b, img) > 0
  THEN height_sum(x, z, b, img) * (12 \div count(x, z, b, img))
  ELSE 0

\* Lines 66-67: the lattice points of the vertex pass, in loop order.
LatticeSeq(b) ==
  LET nx == b.eex - b.esx + 1
      nz == b.eez - b.esz + 1
  IN  [i \in 1 .. nx * nz |->
         <<b.esx + ((i - 1) % nx), b.esz + ((i - 1) \div nx)>>]

\* The lattice points that get a vertex, in the order they are pushed.
Vertices(b, img) ==
  LET Needed(p) == is_needed(p[1], p[2], b, img)
  IN  SelectSeq(LatticeSeq(b), Needed)

\* Lines 127-132.
Positions(b, img) ==
  LET vs == Vertices(b, img)
  IN  [i \in 1 .. Len(vs) |->
         [x   |-> vs[i][1] - b.sx,
          y12 |-> height12(vs[i][1], vs[i][2], b, img),
          z   |-> vs[i][2] - b.sz]]

\* Lines 134-137: each uv component as <<numerator, denominator>>.
Uvs(b, img) ==
  LET vs == Vertices(b, img)
  IN  [i \in 1 .. Len(vs) |->
         [u |-> <<vs[i][1] - b.esx, b.eex - b.esx>>,
          v |-> <<vs[i][2] - b.esz, b.eez - b.esz>>]]

\* Lines 131 and 140: lattice point -> vertex index, counted from 0.
VertexMap(b, img) ==
  LET vs == Vertices(b, img)
  IN  [p \in { vs[i] : i \in 1 .. Len(vs) } |->
         (CHOOSE i \in 1 .. Len(vs) : vs[i] = p) - 1]

\* Lines 149-150: the cells of the triangle pass, in loop order.
CellSeq(b) ==
  LET nx == b.eex - b.esx
      nz == b.eez - b.esz
  IN  [i \in 1 .. nx * nz |->
         <<b.esx + ((i - 1) % nx), b.esz + ((i - 1) \div nx)>>]

\* Lines 152-164: the cell is non-void and its four corners have a vertex.
CellEmits(c, vm, img) ==
  /\ ~(c[1] >= img.w \/ c[2] >= img.h)
  /\ get_pixel(img, c[1], c[2]) /= VOID_HEIGHT
  /\ <<c[1], c[2]>> \in DOMAIN vm
  /\ <<c[1] + 1, c[2]>> \in DOMAIN vm
  /\ <<c[1] + 1, c[2] + 1>> \in DOMAIN vm
  /\ <<c[1], c[2] + 1>> \in DOMAIN vm

\* The filter of line 178 taken over the expanded window.
InOriginalWindow_Expanded(c, b) ==
  /\ c[1] >= b.esx /\ c[1] < b.eex
  /\ c[2] >= b.esz /\ c[2] < b.eez

\* Line 178.
InOriginalWindow(c, b) ==
  /\ c[1] >= b.sx /\ c[1] < b.sx + b.cs
  /\ c[2] >= b.sz /\ c[2] < b.sz + b.cs

\* The two triangles (top-left, bottom-left, top-right) and (top-right,
\* bottom-left, bottom-right), split along the other diagonal.
Quad_OtherDiagonal(c, vm) ==
  LET top_left     == vm[<<c[1], c[2]>>]
      top_right    == vm[<<c[1] + 1, c[2]>>]
      bottom_right == vm[<<c[1] + 1, c[2] + 1>>]
      bottom_left  == vm[<<c[1], c[2] + 1>>]
  IN  <<top_left, bottom_left, top_right,
        top_right, bottom_left, bottom_right>>

\* The two triangles of the cell with their vertices in the opposite order.
Quad_Reversed(c, vm) ==
  LET top_left     == vm[<<c[1], c[2]>>]
      top_right    == vm[<<c[1] + 1, c[2]>>]
      bottom_right == vm[<<c[1] + 1, c[2] + 1>>]
      bottom_left  == vm[<<c[1], c[2] + 1>>]
  IN  <<bottom_right, top_left, top_right,
        bottom_right, bottom_left, top_left>>

\* Lines 167-174: the six indices pushed for one cell.
Quad(c, vm) ==
  LET top_left     == vm[<<c[1], c[2]>>]
      top_right    == vm[<<c[1] + 1, c[2]>>]
      bottom_right == vm[<<c[1] + 1, c[2] + 1>>]
      bottom_left  == vm[<<c[1], c[2] + 1>>]
  IN  <<top_right, top_left, bottom_right,
        top_left, bottom_left, bottom_right>>

Flatten(cells, vm) ==
  [i \in 1 .. 6 * Len(cells) |->
     Quad(cells[((i - 1) \div 6) + 1], vm)[((i - 1) % 6) + 1]]

EmittingCells(b, img) ==
  LET vm == VertexMap(b, img)
      Emits(c) == CellEmits(c, vm, img)
  IN  SelectSeq(CellSeq(b), Emits)

\* Lines 167-174.
AllIndices(b, img) == Flatten(EmittingCells(b, img), VertexMap(b, img))

\* Final indices computed as positions in the dense lattice of the expanded
\* window instead of looked up in the vertex map.
Indices_DenseGrid(b, img) ==
  LET Orig(c) == InOriginalWindow(c, b)
      nx == b.eex - b.esx + 1
      dense == [p \in { LatticeSeq(b)[i] : i \in 1 .. Len(LatticeSeq(b)) } |->
                  (p[2] - b.esz) * nx + (p[1] - b.esx)]
  IN  Flatten(SelectSeq(EmittingCells(b, img), Orig), dense)

\* Lines 178-186.
Indices(b, img) ==
  LET Orig(c) == InOriginalWindow(c, b)
  IN  Flatten(SelectSeq(EmittingCells(b, img), Orig), VertexMap(b, img))

\* Lines 208-225: the cross product (p1 - p0) x (p2 - p0) of triangle t
\* (counted from 1) of the index list idx.
FaceNormal(t, idx, pos) ==
  LET p0 == pos[idx[3 * t - 2] + 1]
      p1 == pos[idx[3 * t - 1] + 1]
      p2 == pos[idx[3 * t] + 1]
      v1 == [x |-> p1.x - p0.x, y |-> p1.y12 - p0.y12, z |-> p1.z - p0.z]
      v2 == [x |-> p2.x - p0.x, y |-> p2.y12 - p0.y12, z |-> p2.z - p0.z]
  IN  [x |-> v1.y * v2.z - v1.z * v2.y,
       y |-> v1.z * v2.x - v1.x * v2.z,
       z |-> v1.x * v2.y - v1.y * v2.x]

Touches(t, idx, k) ==
  idx[3 * t - 2] = k \/ idx[3 * t - 1] = k \/ idx[3 * t] = k

\* Lines 198-233: the normal accumulated at vertex k (counted from 0) over
\* the triangles 1..t of idx, starting from the zero vector.
RECURSIVE Accumulated(_, _, _, _)
Accumulated(k, t, idx, pos) ==
  IF t = 0 THEN [x |-> 0, y |-> 0, z |-> 0]
  ELSE LET rest == Accumulated(k, t - 1, idx, pos)
           n    == FaceNormal(t, idx, pos)
       IN  IF Touches(t, idx, k)
           THEN [x |-> rest.x + n.x, y |-> rest.y + n.y, z |-> rest.z + n.z]
           ELSE rest

Abs(a) == IF a < 0 THEN -a ELSE a

RECURSIVE Gcd(_, _)
Gcd(a, b) == IF b = 0 THEN a ELSE Gcd(b, a % b)

\* The accumulated vector left as it is, whatever its length.
Normalized_Unscaled(n) == n

\* Lines 238-245.  With x and z in units of height_scale / 12 = 1/40 the
\* squared length is (x^2 + 1600 y^2 + z^2) / 1600, and on integers
\* length > 0.0001 holds exactly when that sum is positive.  n / length is
\* kept as the primitive integer vector pointing the same way.
Normalized(n) ==
  IF n.x * n.x + 1600 * n.y * n.y + n.z * n.z > 0
  THEN LET g == Gcd(Gcd(Abs(n.x), Abs(n.y)), Abs(n.z))
       IN  [x |-> n.x \div g, y |-> n.y \div g, z |-> n.z \div g]
  ELSE [x |-> 0, y |-> 1, z |-> 0]

\* Lines 196-233: the normals before normalisation, one per vertex.
AccumulatedNormals(b, img) ==
  LET idx == AllIndices(b, img)
      pos == Positions(b, img)
  IN  [i \in 1 .. Len(pos) |->
         Accumulated(i - 1, Len(idx) \div 3, idx, pos)]

\* Lines 235-246.
Normals(b, img) ==
  LET acc == AccumulatedNormals(b, img)
  IN  [i \in 1 .. Len(acc) |-> Normalized(acc[i])]

NoMesh(why, b, img, scanned) ==
  [some |-> FALSE, why |-> why,
   positions |-> << >>, normals |-> << >>, uvs |-> << >>, indices |-> << >>,
   all_indices |-> << >>, vertex_map |-> << >>, accumulated |-> << >>,
   underflow |-> scanned /\ PrecheckUnderflow(b, img),
   reads |-> IF scanned THEN PrecheckReads(b, img) ELSE {}]

\* Lines 9-264, the value returned and what the call did on the way:
\* why is the return taken, accumulated the normals as they stood before
\* normalisation, underflow whether an unsigned subtraction of the
\* pre-check went below zero, reads the pixels the pre-check read.
generate_terrain_mesh(sx, sz, img, cs) ==
  LET b == Bounds(sx, sz, cs, img)
  IN  IF Degenerate(b) THEN NoMesh("degenerate", b, img, FALSE)
      ELSE IF ~has_terrain(b, img) THEN NoMesh("void", b, img, TRUE)
      ELSE IF Len(Indices(b, img)) = 0 THEN NoMesh("no_indices", b, img, TRUE)
      ELSE [some |-> TRUE, why |-> "mesh",
            positions |-> Positions(b, img),
            normals |-> Normals(b, img),
            uvs |-> Uvs(b, img),
            indices |-> Indices(b, img),
            all_indices |-> AllIndices(b, img),
            vertex_map |-> VertexMap(b, img),
            accumulated |-> AccumulatedNormals(b, img),
            underflow |-> PrecheckUnderflow(b, img),
            reads |-> PrecheckReads(b, img)]

\* ------------------------------------------------------- generate_border
DIRECTIONS == << <<1, 0>>, <<0, 1>>, <<-1, 0>>, <<0, -1>> >>

MOORE_DIRECTIONS ==
  << <<1, 0>>, <<1, 1>>, <<0, 1>>, <<-1, 1>>,
     <<-1, 0>>, <<-1, -1>>, <<0, -1>>, <<1, -1>> >>

\* Lines 317-334 and 445-459: some 4-neighbour of (x, z) is void or lies
\* outside the raster.
IsBorder(img, x, z) ==
  \E d \in 1 .. 4 :
    LET nx == x + DIRECTIONS[d][1]
        nz == z + DIRECTIONS[d][2]
    IN  IF InRaster(img, nx, nz)
        THEN get_pixel(img, nx, nz) = VOID_HEIGHT
        ELSE TRUE

\* Lines 305-341: the border pixels of the window, in scan order.
BorderPixels(img, sx, sz, ex, ez) ==
  LET nx == ex - sx
      nz == ez - sz
      window == [i \in 1 .. nx * nz |->
                   <<sx + ((i - 1) % nx), sz + ((i - 1) \div nx)>>]
      Keep(p) == /\ ~(p[1] >= img.w \/ p[2] >= img.h)
                 /\ get_pixel(img, p[1], p[2]) /= VOID_HEIGHT
                 /\ IsBorder(img, p[1], p[2])
  IN  SelectSeq(window, Keep)

\* Lines 392-408: the void 4-neighbours of p inside the raster.
VoidNeighbors(img, p) ==
  LET cand == [d \in 1 .. 4 |->
                 <<p[1] + DIRECTIONS[d][1], p[2] + DIRECTIONS[d][2]>>]
      IsVoid(q) == /\ InRaster(img, q[1], q[2])
                   /\ get_pixel(img, q[1], q[2]) = VOID_HEIGHT
  IN  SelectSeq(cand, IsVoid)

\* Lines 430-467: the neighbour of p in Moore direction dir (counted from 0)
\* lies in the window and the raster, is non-void and is a border pixel.
Qualifies(img, p, dir, sx, sz, ex, ez) ==
  LET nx == p[1] + MOORE_DIRECTIONS[dir + 1][1]
      nz == p[2] + MOORE_DIRECTIONS[dir + 1][2]
  IN  /\ nx >= sx /\ nx < ex /\ nz >= sz /\ nz < ez
      /\ InRaster(img, nx, nz)
      /\ get_pixel(img, nx, nz) /= VOID_HEIGHT
      /\ IsBorder(img, nx, nz)

\* Lines 419-469: the first qualifying direction, searched clockwise from
\* prev_direction + 6; 8 when there is none.
NextDirection(img, p, prev, sx, sz, ex, ez) ==
  LET first == (prev + 6) % 8
      found == { i \in 0 .. 7 :
                   Qualifies(img, p, (first + i) % 8, sx, sz, ex, ez) }
  IN  IF found = {} THEN 8
      ELSE (first + (CHOOSE i \in found : \A j \in found : i <= j)) % 8

\* A budget of three times the border-pixel count.
IterationBudget_Triple(n) == n * 3

\* Line 378.
IterationBudget(n) == n * 2

\* The closure test asking for more than 4 points.
Closes_TooLate(len, next_pixel, start) == len > 4 /\ next_pixel = start

\* Line 478: the boundary holds more than 2 points and the next pixel is the
\* start pixel.
Closes(len, next_pixel, start) == len > 2 /\ next_pixel = start

Step(p, dir) ==
  <<p[1] + MOORE_DIRECTIONS[dir + 1][1], p[2] + MOORE_DIRECTIONS[dir + 1][2]>>

\* A retain that keeps nothing.
Retain_DropAll(seq, proc) == << >>

\* Line 510.
Retain(seq, proc) ==
  LET Unprocessed(p) == p \notin proc
  IN  SelectSeq(seq, Unprocessed)

\* ------------------------------------------------------ border_generator
\* border_generator.rs:138-143: the offset (dx, dz) a relative coordinate
\* stands for when looking in the given direction.
RelativeOffset(direction, rel) ==
  CASE direction = "Right"  -> <<-rel.right, -rel.forward>>
    [] direction = "Left"   -> <<rel.right, rel.forward>>
    [] direction = "Bottom" -> <<-rel.right, rel.forward>>
    [] direction = "Top"    -> <<rel.right, -rel.forward>>

\* border_generator.rs:132-158.  The coordinates are u32: where the sum
\* would be negative the coordinate is set to 0, elsewhere the cast back to
\* u32 changes nothing.
relative_to_absolute(base_x, base_z, direction, rel) ==
  LET d == RelativeOffset(direction, rel)
      abs_x == IF d[1] < 0 /\ base_x < Abs(d[1]) THEN 0 ELSE base_x + d[1]
      abs_z == IF d[2] < 0 /\ base_z < Abs(d[2]) THEN 0 ELSE base_z + d[2]
  IN  <<abs_x, abs_z>>

\* border_generator.rs:113-130: the Option<u8> returned and the pixels read.
\* nx and nz are u32, so the tests nx < 0 and nz < 0 of line 122 are kept as
\* written and never hold.
get_relative_pixel(base_x, base_z, direction, rel, img) ==
  LET n == relative_to_absolute(base_x, base_z, direction, rel)
  IN  IF n[1] >= img.w \/ n[2] >= img.h \/ n[1] < 0 \/ n[2] < 0
      THEN [some |-> FALSE, value |-> 0, read |-> {}]
      ELSE [some |-> TRUE, value |-> get_pixel(img, n[1], n[2]), read |-> {n}]

\* border_generator.rs:97-111.
check_relative_pixel(base_x, base_z, direction, rel, img) ==
  LET pixel == get_relative_pixel(base_x, base_z, direction, rel, img)
  IN  IF ~pixel.some THEN FALSE ELSE pixel.value > VOID_HEIGHT

\* border_generator.rs:84-86.
FORWARD == [forward |-> 1, right |-> 0]
RIGHT   == [forward |-> 0, right |-> 1]
LEFT    == [forward |-> 0, right |-> -1]

\* border_generator.rs:83-95.
determine_border_type(x, z, direction, img) ==
  LET forward == check_relative_pixel(x, z, direction, FORWARD, img)
      right   == check_relative_pixel(x, z, direction, RIGHT, img)
      left    == check_relative_pixel(x, z, direction, LEFT, img)
  IN  IF ~forward /\ right /\ ~left THEN "Corner"
      ELSE IF ~forward /\ ~right /\ ~left THEN "Line"
      ELSE "None"

\* border_generator.rs:65-81: one call of process_border, with what its
\* three look-ups returned.
process_border(x, z, direction, img) ==
  [x |-> x, z |-> z, direction |-> direction,
   forward |-> get_relative_pixel(x, z, direction, FORWARD, img),
   right   |-> get_relative_pixel(x, z, direction, RIGHT, img),
   left    |-> get_relative_pixel(x, z, direction, LEFT, img),
   border_type |-> determine_border_type(x, z, direction, img)]

\* border_generator.rs:160-173.  (x as i32 + dx) as u32 turns -1 into a
\* value above every width, so a neighbour left of or above the raster fails
\* the test nx < width && nz < height like one beyond it.
is_border_pixel(x, z, img) ==
  \E d \in {<<0, -1>>, <<1, 0>>, <<0, 1>>, <<-1, 0>>} :
    /\ x + d[1] >= 0 /\ x + d[1] < img.w
    /\ z + d[2] >= 0 /\ z + d[2] < img.h
    /\ get_pixel(img, x + d[1], z + d[2]) = VOID_HEIGHT

\* border_generator.rs:47-60: the process_border calls of one loop iteration
\* of make_borders at the non-void pixel (x, z), in the order they are made.
BorderCalls(x, z, img) ==
  IF ~is_border_pixel(x, z, img) THEN << >>
  ELSE (IF x > 0 /\ get_pixel(img, x - 1, z) = VOID_HEIGHT
        THEN <<process_border(x - 1, z, "Left", img)>> ELSE << >>)
    \o (IF x + 1 < img.w /\ get_pixel(img, x + 1, z) = VOID_HEIGHT
        THEN <<process_border(x + 1, z, "Right", img)>> ELSE << >>)
    \o (IF z > 0 /\ get_pixel(img, x, z - 1) = VOID_HEIGHT
        THEN <<process_border(x, z - 1, "Top", img)>> ELSE << >>)
    \o (IF z + 1 < img.h /\ get_pixel(img, x, z + 1) = VOID_HEIGHT
        THEN <<process_border(x, z + 1, "Bottom", img)>> ELSE << >>)

\* -------------------------------------------------------------- state
VARIABLES
  heightmap,       \* the raster (mod.rs:25)
  chunk_size,      \* generation.rs:14, mod.rs:20
  chunk_x,         \* x of the chunk loop (mod.rs:47)
  chunk_z,         \* z of the chunk loop (mod.rs:46)
  pc,              \* "spawn": at the head of the chunk loop body;
                   \* "pick": at the head of the contour loop (line 351);
                   \* "trace": at the head of the trace loop (line 380)
  mesh,            \* the mesh built by the running call (lines 52-246)
  returned,        \* every call made so far: origin and value returned
  border_pixels, processed, borders_count,
  start_point, boundary, current, prev_direction, max_iterations,
  contours,        \* the contours kept by the running call (lines 497-507)
  stop,            \* how the last trace loop ended
  scan,            \* make_borders: pixels of the window scanned so far
  border_calls     \* make_borders: the process_border calls of the last
                   \* pixel scanned

vars ==
  <<heightmap, chunk_size, chunk_x, chunk_z, pc, mesh, returned,
    border_pixels, processed, borders_count, start_point, boundary, current,
    prev_direction, max_iterations, contours, stop, scan, border_calls>>

tracer == <<border_pixels, processed, borders_count, start_point, boundary,
            current, prev_direction, max_iterations, contours, stop>>

num_chunks_x == WorldWidth \div chunk_size
num_chunks_z == WorldHeight \div chunk_size
start_x == chunk_x * chunk_size
start_z == chunk_z * chunk_size
end_x == start_x + chunk_size
end_z == start_z + chunk_size

Inputs ==
  { [heightmap |-> r, chunk_size |-> ChunkSize] : r \in Rasters }
  \cup { [heightmap |-> r, chunk_size |-> BigChunk] :
           r \in IslandRasters \cup StripRasters \cup {ScenarioRaster} }

Init ==
  /\ \E i \in Inputs : heightmap = i.heightmap /\ chunk_size = i.chunk_size
  /\ chunk_x = 0
  /\ chunk_z = 0
  /\ pc = "spawn"
  /\ mesh = [some |-> FALSE]
  /\ returned = << >>
  /\ border_pixels = << >>
  /\ processed = {}
  /\ borders_count = 0
  /\ start_point = <<0, 0>>
  /\ boundary = << >>
  /\ current = <<0, 0>>
  /\ prev_direction = 0
  /\ max_iterations = 0
  /\ contours = << >>
  /\ stop = "none"
  /\ scan = 0
  /\ border_calls = << >>

\* mod.rs:46-47: the next iteration of the nested chunk loops.
NextChunk ==
  IF chunk_x + 1 < num_chunks_x
  THEN chunk_x' = chunk_x + 1 /\ chunk_z' = chunk_z
  ELSE chunk_x' = 0 /\ chunk_z' = chunk_z + 1

\* mod.rs:57-60: generate_terrain_mesh returns None and the chunk is skipped.
GenerateNone ==
  /\ pc = "spawn"
  /\ chunk_z < num_chunks_z
  /\ LET m == generate_terrain_mesh(start_x, start_z, heightmap, chunk_size)
     IN  /\ ~m.some
         /\ returned' = Append(returned,
              [start_x |-> start_x, start_z |-> start_z, mesh |-> m])
  /\ NextChunk
  /\ UNCHANGED <<scan, border_calls, heightmap, chunk_size, pc, mesh, tracer>>

\* generation.rs:9-246 and 299-349: the mesh is built and generate_border
\* has collected the border pixels of the chunk window.
GenerateBuild ==
  /\ pc = "spawn"
  /\ chunk_z < num_chunks_z
  /\ LET m == generate_terrain_mesh(start_x, start_z, heightmap, chunk_size)
     IN  /\ m.some
         /\ mesh' = m
  /\ border_pixels' = BorderPixels(heightmap, start_x, start_z, end_x, end_z)
  /\ processed' = {}
  /\ borders_count' = 0
  /\ contours' = << >>
  /\ stop' = "none"
  /\ pc' = "pick"
  /\ UNCHANGED <<scan, border_calls, heightmap, chunk_size, chunk_x, chunk_z, returned,
                 start_point, boundary, current, prev_direction,
                 max_iterations>>

Unprocessed == { i \in 1 .. Len(border_pixels) : border_pixels[i] \notin processed }

\* Lines 351-378: the first unprocessed border pixel starts a contour.
PickStart ==
  /\ pc = "pick"
  /\ Unprocessed /= {}
  /\ LET start_idx == CHOOSE i \in Unprocessed : \A j \in Unprocessed : i <= j
     IN  /\ start_point' = border_pixels[start_idx]
         /\ current' = border_pixels[start_idx]
  /\ borders_count' = borders_count + 1
  /\ boundary' = << >>
  /\ prev_direction' = 0
  /\ max_iterations' = IterationBudget(Len(border_pixels))
  /\ pc' = "trace"
  /\ UNCHANGED <<scan, border_calls, heightmap, chunk_size, chunk_x, chunk_z, mesh, returned,
                 border_pixels, processed, contours, stop>>

\* Lines 351-364, 513, 256-263 and mod.rs:62-76: no unprocessed border pixel
\* is left, generate_border returns, the mesh is returned and spawned.
BorderDone ==
  /\ pc = "pick"
  /\ Unprocessed = {}
  /\ returned' = Append(returned,
       [start_x |-> start_x, start_z |-> start_z, mesh |-> mesh])
  /\ NextChunk
  /\ pc' = "spawn"
  /\ UNCHANGED <<scan, border_calls, heightmap, chunk_size, mesh, tracer>>

\* Lines 389-414: the boundary after the current pixel is pushed.
Pushed ==
  Append(boundary, [position |-> current,
                    neighbors |-> VoidNeighbors(heightmap, current)])

\* Lines 489-511 after a break: a contour of fewer than 3 points is dropped
\* without touching border_pixels, any other is kept and the processed
\* pixels leave border_pixels.
EndTrace(bnd, proc, why) ==
  /\ boundary' = bnd
  /\ processed' = proc
  /\ stop' = why
  /\ IF Len(bnd) < 3
     THEN UNCHANGED <<border_pixels, contours>>
     ELSE /\ border_pixels' = Retain(border_pixels, proc)
          /\ contours' = Append(contours, bnd)
  /\ pc' = "pick"
  /\ UNCHANGED <<scan, border_calls, heightmap, chunk_size, chunk_x, chunk_z, mesh, returned,
                 borders_count, start_point, current, prev_direction>>

\* Lines 382-386: the iteration budget runs out.
TraceBudget ==
  /\ pc = "trace"
  /\ max_iterations - 1 = 0
  /\ max_iterations' = max_iterations - 1
  /\ EndTrace(boundary, processed, "budget")

\* Lines 382-475: no neighbour qualifies.
TraceNoNext ==
  /\ pc = "trace"
  /\ max_iterations - 1 /= 0
  /\ NextDirection(heightmap, current, prev_direction,
                   start_x, start_z, end_x, end_z) = 8
  /\ max_iterations' = max_iterations - 1
  /\ EndTrace(Pushed, processed \cup {current}, "no_next")

\* Lines 382-481: the next pixel is the start pixel and the boundary holds
\* more than 2 points.
TraceClosed ==
  /\ pc = "trace"
  /\ max_iterations - 1 /= 0
  /\ LET dir == NextDirection(heightmap, current, prev_direction,
                              start_x, start_z, end_x, end_z)
     IN  /\ dir /= 8
         /\ Closes(Len(Pushed), Step(current, dir), start_point)
  /\ max_iterations' = max_iterations - 1
  /\ EndTrace(Pushed, processed \cup {current}, "closed")

\* Lines 382-485: the trace moves on to the next pixel.
TraceMove ==
  /\ pc = "trace"
  /\ max_iterations - 1 /= 0
  /\ LET dir == NextDirection(heightmap, current, prev_direction,
                              start_x, start_z, end_x, end_z)
     IN  /\ dir /= 8
         /\ ~Closes(Len(Pushed), Step(current, dir), start_point)
         /\ current' = Step(current, dir)
         /\ prev_direction' = dir
  /\ max_iterations' = max_iterations - 1
  /\ processed' = processed \cup {current}
  /\ boundary' = Pushed
  /\ UNCHANGED <<scan, border_calls, heightmap, chunk_size, chunk_x, chunk_z, pc, mesh, returned,
                 border_pixels, borders_count, start_point, contours, stop>>

Next ==
  \/ GenerateNone
  \/ GenerateBuild
  \/ PickStart
  \/ BorderDone
  \/ TraceBudget
  \/ TraceNoNext
  \/ TraceClosed
  \/ TraceMove

Spec == Init /\ [][Next]_vars

\* ---------------------------------------------------------- make_borders
\* border_generator.rs:38-39.
border_end_x == Min(start_x + chunk_size, heightmap.w)
border_end_z == Min(start_z + chunk_size, heightmap.h)

\* border_generator.rs:41-42: the pixels of the loops, in loop order; an
\* empty range where the window starts at or beyond the raster's edge.
ScanSeq ==
  LET nx == IF border_end_x > start_x THEN border_end_x - start_x ELSE 0
      nz == IF border_end_z > start_z THEN border_end_z - start_z ELSE 0
  IN  [i \in 1 .. nx * nz |->
         <<start_x + ((i - 1) % nx), start_z + ((i - 1) \div nx)>>]

\* A call make_borders(start_x, start_z, chunk_size, heightmap, ..) for a
\* chunk of the grid of mod.rs:40-47, about to enter its loops.
BorderInit ==
  /\ \E i \in Inputs : heightmap = i.heightmap /\ chunk_size = i.chunk_size
  /\ chunk_x \in 0 .. num_chunks_x - 1
  /\ chunk_z \in 0 .. num_chunks_z - 1
  /\ pc = "make_borders"
  /\ mesh = [some |-> FALSE]
  /\ returned = << >>
  /\ border_pixels = << >>
  /\ processed = {}
  /\ borders_count = 0
  /\ start_point = <<0, 0>>
  /\ boundary = << >>
  /\ current = <<0, 0>>
  /\ prev_direction = 0
  /\ max_iterations = 0
  /\ contours = << >>
  /\ stop = "none"
  /\ scan = 0
  /\ border_calls = << >>

\* border_generator.rs:43-45: a void pixel is skipped.
MakeBordersSkip ==
  /\ pc = "make_borders"
  /\ scan < Len(ScanSeq)
  /\ LET p == ScanSeq[scan + 1]
     IN  get_pixel(heightmap, p[1], p[2]) = VOID_HEIGHT
  /\ scan' = scan + 1
  /\ border_calls' = << >>
  /\ UNCHANGED <<heightmap, chunk_size, chunk_x, chunk_z, pc, mesh, returned,
                 tracer>>

\* border_generator.rs:47-60: a non-void pixel and its process_border calls.
MakeBordersPixel ==
  /\ pc = "make_borders"
  /\ scan < Len(ScanSeq)
  /\ LET p == ScanSeq[scan + 1]
     IN  /\ get_pixel(heightmap, p[1], p[2]) /= VOID_HEIGHT
         /\ border_calls' = BorderCalls(p[1], p[2], heightmap)
  /\ scan' = scan + 1
  /\ UNCHANGED <<heightmap, chunk_size, chunk_x, chunk_z, pc, mesh, returned,
                 tracer>>

BorderNext ==
  \/ MakeBordersSkip
  \/ MakeBordersPixel

BorderSpec == BorderInit /\ [][BorderNext]_vars

TypeOK ==
  /\ pc \in {"spawn", "pick", "trace", "make_borders"}
  /\ chunk_x \in 0 .. num_chunks_x
  /\ chunk_z \in 0 .. num_chunks_z

\* ------------------------------------------------------------ properties
\* The calls made so far that returned a mesh.
Meshes == { i \in 1 .. Len(returned) : returned[i].mesh.some }

\* The raster lattice point of vertex k (counted from 1) of call r: chunk
\* origin (the translation of mod.rs:66) plus local position.
WorldPoint(r, k) ==
  <<r.start_x + r.mesh.positions[k].x, r.start_z + r.mesh.positions[k].z>>

VerticesAt(r, p) ==
  { k \in 1 .. Len(r.mesh.positions) : WorldPoint(r, k) = p }

AdjacentX(a, b) ==
  b.start_x = a.start_x + chunk_size /\ b.start_z = a.start_z
AdjacentZ(a, b) ==
  b.start_z = a.start_z + chunk_size /\ b.start_x = a.start_x

\* The lattice points on the edge shared by a and its neighbour b.
SharedEdge(a, b) ==
  IF AdjacentX(a, b)
  THEN { <<b.start_x, z>> : z \in a.start_z .. a.start_z + chunk_size }
  ELSE { <<x, b.start_z>> : x \in a.start_x .. a.start_x + chunk_size }

SeamPairs ==
  { q \in (1 .. Len(returned)) \X (1 .. Len(returned)) :
      AdjacentX(returned[q[1]], returned[q[2]])
      \/ AdjacentZ(returned[q[1]], returned[q[2]]) }

MeshSeamPairs == { q \in SeamPairs : q[1] \in Meshes /\ q[2] \in Meshes }

\* C1: for two adjacent chunks that both returned a mesh, every lattice point
\* of the shared edge with a vertex in both builds has the same final normal
\* in both.
C1_SeamNormalContinuity ==
  \A q \in MeshSeamPairs :
    LET a == returned[q[1]]
        b == returned[q[2]]
    IN  \A p \in SharedEdge(a, b) :
          \A i \in VerticesAt(a, p), j \in VerticesAt(b, p) :
            a.mesh.normals[i] = b.mesh.normals[j]

SeamVertexSame(a, b) ==
  \A p \in SharedEdge(a, b) :
    /\ (VerticesAt(a, p) /= {}) <=> (VerticesAt(b, p) /= {})
    /\ \A i \in VerticesAt(a, p), j \in VerticesAt(b, p) :
         a.mesh.positions[i].y12 = b.mesh.positions[j].y12

\* C2 as stated: for any two adjacent chunks, a lattice point of the shared
\* edge has a vertex in one build iff it has one in the other, at the same
\* world position.
C2_NoCracksAnyPair ==
  \A q \in SeamPairs : SeamVertexSame(returned[q[1]], returned[q[2]])

\* C2 amended: for any two adjacent chunks that both return a mesh, a
\* lattice point of the shared edge has a vertex in one build iff it has one
\* in the other, at the same world position.
C2_NoCracks ==
  \A q \in MeshSeamPairs : SeamVertexSame(returned[q[1]], returned[q[2]])

C2_Witness ==
  \E q \in MeshSeamPairs :
    \E p \in SharedEdge(returned[q[1]], returned[q[2]]) :
      /\ VerticesAt(returned[q[1]], p) /= {}
      /\ VerticesAt(returned[q[2]], p) /= {}
      /\ returned[q[1]].mesh.positions[
           CHOOSE i \in VerticesAt(returned[q[1]], p) : TRUE].y12 % 12 /= 0

\* The raster cell a triangle of the final index buffer covers, read off the
\* world lattice points of its three vertices.
TriangleCell(r, t) ==
  LET pts == { WorldPoint(r, r.mesh.indices[3 * t - 3 + c] + 1) : c \in 1 .. 3 }
      xs  == { p[1] : p \in pts }
      zs  == { p[2] : p \in pts }
  IN  <<CHOOSE x \in xs : \A y \in xs : x <= y,
        CHOOSE z \in zs : \A y \in zs : z <= y>>

FinalCells(r) ==
  { TriangleCell(r, t) : t \in 1 .. (Len(r.mesh.indices) \div 3) }

InWindow(r, c) ==
  /\ r.start_x <= c[1] /\ c[1] < r.start_x + chunk_size
  /\ r.start_z <= c[2] /\ c[2] < r.start_z + chunk_size

\* C3: no raster cell has triangles in the final index buffers of two
\* distinct chunks, and every cell with triangles in a chunk's final index
\* buffer lies in that chunk's original window.
C3_NoSeamDuplication ==
  /\ \A i \in Meshes, j \in Meshes :
       i /= j => FinalCells(returned[i]) \cap FinalCells(returned[j]) = {}
  /\ \A i \in Meshes : \A c \in FinalCells(returned[i]) : InWindow(returned[i], c)

C3_Witness ==
  \E q \in MeshSeamPairs :
    /\ FinalCells(returned[q[1]]) /= {}
    /\ FinalCells(returned[q[2]]) /= {}
    /\ Len(returned[q[1]].mesh.all_indices) > Len(returned[q[1]].mesh.indices)

\* C4: in every returned mesh each entry of the final index buffer and of
\* all_indices is below the number of positions, the number of indices is a
\* multiple of 3, and positions, normals and uvs have the same length.
C4_IndexValidity ==
  \A i \in Meshes :
    LET m == returned[i].mesh
    IN  /\ \A k \in 1 .. Len(m.indices) :
             m.indices[k] >= 0 /\ m.indices[k] < Len(m.positions)
        /\ \A k \in 1 .. Len(m.all_indices) :
             m.all_indices[k] >= 0 /\ m.all_indices[k] < Len(m.positions)
        /\ Len(m.indices) % 3 = 0
        /\ Len(m.normals) = Len(m.positions)
        /\ Len(m.uvs) = Len(m.positions)

C4_Witness ==
  \E i \in Meshes :
    /\ Len(returned[i].mesh.indices) > 0
    /\ \E k \in 1 .. Len(returned[i].mesh.indices) :
         returned[i].mesh.indices[k] = Len(returned[i].mesh.positions) - 1

\* The raster samples in the original window of call r.
WindowSamples(r) ==
  { p \in Coords(heightmap.w, heightmap.h) : InWindow(r, p) }

\* The raster samples in the one-pixel ring around the window of call r.
RingSamples(r) ==
  { p \in Coords(heightmap.w, heightmap.h) :
      /\ r.start_x - 1 <= p[1] /\ p[1] <= r.start_x + chunk_size
      /\ r.start_z - 1 <= p[2] /\ p[2] <= r.start_z + chunk_size
      /\ ~InWindow(r, p) }

VoidWindow(r) ==
  \A p \in WindowSamples(r) : heightmap.px[p] = VOID_HEIGHT

\* C5: a call whose original window holds no non-void raster sample returns
\* no mesh, whatever the ring around the window holds, and the pre-check
\* reads samples of the original window only.
C5_VoidChunk ==
  \A i \in 1 .. Len(returned) :
    /\ VoidWindow(returned[i]) => ~returned[i].mesh.some
    /\ returned[i].mesh.reads \subseteq WindowSamples(returned[i])

C5_Witness ==
  \E i \in 1 .. Len(returned) :
    /\ VoidWindow(returned[i])
    /\ \E p \in RingSamples(returned[i]) : heightmap.px[p] /= VOID_HEIGHT
    /\ returned[i].mesh.reads = WindowSamples(returned[i])
    /\ returned[i].mesh.reads /= {}
    /\ ~returned[i].mesh.some

\* C6: a call whose origin has start_x >= width or start_z >= height returns
\* no mesh, reads no pixel outside the raster and evaluates no unsigned
\* subtraction below zero.
C6_DegenerateBounds ==
  \A i \in 1 .. Len(returned) :
    (returned[i].start_x >= heightmap.w \/ returned[i].start_z >= heightmap.h)
      => /\ ~returned[i].mesh.some
         /\ ~returned[i].mesh.underflow
         /\ returned[i].mesh.reads \subseteq Coords(heightmap.w, heightmap.h)

\* An origin exactly on the raster edge passes the bounds test of line 24
\* and reaches the pre-check.
C6_Witness ==
  \E i \in 1 .. Len(returned) :
    /\ returned[i].start_x = heightmap.w
    /\ returned[i].start_z < heightmap.h
    /\ returned[i].mesh.why = "void"

\* C7: in every returned mesh the triangles of the final index buffer come
\* from cells of the original window and every vertex of the returned
\* buffers is a lattice point of the original window.
C7_OutputRestricted ==
  \A i \in Meshes :
    LET r == returned[i]
    IN  /\ \A c \in FinalCells(r) : InWindow(r, c)
        /\ \A k \in 1 .. Len(r.mesh.positions) :
             /\ r.start_x <= WorldPoint(r, k)[1]
             /\ WorldPoint(r, k)[1] <= r.start_x + chunk_size
             /\ r.start_z <= WorldPoint(r, k)[2]
             /\ WorldPoint(r, k)[2] <= r.start_z + chunk_size

Uniform(v) ==
  /\ heightmap.w > 0 /\ heightmap.h > 0
  /\ \A p \in Coords(heightmap.w, heightmap.h) : heightmap.px[p] = v

\* C8: on a raster without void whose samples all equal v, every vertex of
\* every mesh has height exactly v * height_scale (y12 = 12 * v).
C8_HeightFidelity ==
  \A v \in 1 .. MaxV :
    Uniform(v) =>
      /\ \A i \in Meshes : \A k \in 1 .. Len(returned[i].mesh.positions) :
           returned[i].mesh.positions[k].y12 = 12 * v
      /\ mesh.some => \A k \in 1 .. Len(mesh.positions) :
           mesh.positions[k].y12 = 12 * v

\* A vertex of the expanded ring on a uniform raster.
C8_Witness ==
  /\ \E v \in 1 .. MaxV : Uniform(v)
  /\ \E i \in Meshes : \E k \in 1 .. Len(returned[i].mesh.positions) :
       WorldPoint(returned[i], k)[1] > returned[i].start_x + chunk_size

\* The filled squares <<n, ox, oz>> the non-void pixels of the raster form,
\* with void on every side inside the raster.
SquareIslands ==
  { q \in (1 .. heightmap.w) \X (1 .. heightmap.w) \X (1 .. heightmap.h) :
      /\ q[2] + q[1] < heightmap.w /\ q[3] + q[1] < heightmap.h
      /\ \A p \in Coords(heightmap.w, heightmap.h) :
           (heightmap.px[p] /= VOID_HEIGHT) <=>
             /\ q[2] <= p[1] /\ p[1] < q[2] + q[1]
             /\ q[3] <= p[2] /\ p[2] < q[3] + q[1] }

\* The square lies in the window being traced.
IslandInWindow(q) ==
  /\ start_x <= q[2] /\ q[2] + q[1] <= end_x
  /\ start_z <= q[3] /\ q[3] + q[1] <= end_z

\* The number of pixels on the perimeter of a filled n x n square.
PerimeterPixels(n) == IF n = 1 THEN 1 ELSE 4 * n - 4

\* generate_border is about to return (lines 351-364).
BorderReturning == pc = "pick" /\ Unprocessed = {}

OneClosedContour(n) ==
  /\ borders_count = 1
  /\ Len(contours) = 1
  /\ Len(contours[1]) = PerimeterPixels(n)
  /\ stop = "closed"

\* C9 as stated: on a single filled square island generate_border traces
\* exactly one contour, with as many points as the island has perimeter
\* pixels, and the trace ends on finding the start pixel again.
C9_ContourClosureAnySquare ==
  \A q \in SquareIslands :
    (BorderReturning /\ IslandInWindow(q)) => OneClosedContour(q[1])

\* C9 amended: the same for a filled square island of side at least 2.
C9_ContourClosure ==
  \A q \in SquareIslands :
    (BorderReturning /\ IslandInWindow(q) /\ q[1] >= 2)
      => OneClosedContour(q[1])

C9_Witness ==
  /\ BorderReturning
  /\ \E q \in SquareIslands : IslandInWindow(q) /\ q[1] >= 3
  /\ stop = "closed"
  /\ Len(contours) = 1

\* The first call of the scenario run has returned.
ScenarioReturned ==
  /\ heightmap = ScenarioRaster
  /\ chunk_size >= 4
  /\ Len(returned) >= 1

LongContour == \E c \in 1 .. Len(contours) : Len(contours[c]) >= 3

\* C10 as stated: in the 4x4 scenario the chunk at (0,0) returns a non-empty
\* mesh of fewer than 18 triangles and generate_border keeps a contour of at
\* least 3 points.
C10_ScenarioBelowNineCells ==
  ScenarioReturned =>
    /\ returned[1].mesh.some
    /\ Len(returned[1].mesh.indices) > 0
    /\ Len(returned[1].mesh.indices) \div 3 < 18
    /\ LongContour

\* C10 amended: in the 4x4 scenario the chunk at (0,0) returns a mesh of
\* exactly 30 triangles, two for each of the 15 non-void samples and fewer
\* than the 32 of a full raster, and generate_border keeps a contour of at
\* least 3 points.
C10_Scenario ==
  ScenarioReturned =>
    /\ returned[1].mesh.some
    /\ Len(returned[1].mesh.indices) \div 3 = 30
    /\ LongContour

C10_Witness ==
  /\ ScenarioReturned
  /\ returned[1].start_x = 0 /\ returned[1].start_z = 0
  /\ returned[1].mesh.some
  /\ LongContour

\* ---------------------------------------------------------------- C11
\* The pixels the tracer may ever visit in the running call: the non-void
\* in-raster pixels of the window with a 4-neighbour that is void or outside
\* the raster.
WindowBorderSet ==
  { p \in (start_x .. end_x - 1) \X (start_z .. end_z - 1) :
      /\ InRaster(heightmap, p[1], p[2])
      /\ get_pixel(heightmap, p[1], p[2]) /= VOID_HEIGHT
      /\ \E d \in {<<1, 0>>, <<0, 1>>, <<-1, 0>>, <<0, -1>>} :
           \/ ~InRaster(heightmap, p[1] + d[1], p[2] + d[2])
           \/ get_pixel(heightmap, p[1] + d[1], p[2] + d[2]) = VOID_HEIGHT }

FirstUnprocessed ==
  border_pixels[CHOOSE i \in Unprocessed : \A j \in Unprocessed : i <= j]

\* One step of generate_border keeps the termination argument: a trace has
\* pushed fewer than 2 * Len(border_pixels) points, a pass that ends has
\* marked its start pixel, which was unprocessed when the pass began, so
\* after borders_count passes at least borders_count of the finitely many
\* border pixels of the window are processed, and a pass that ended on the
\* budget is followed by a pass from the first unprocessed pixel, if any.
TerminationStep ==
  /\ pc = "trace" => Len(boundary') < 2 * Len(border_pixels)
  /\ (pc = "pick" /\ pc' = "trace") =>
        /\ start_point' \notin processed
        /\ start_point' \in WindowBorderSet
  /\ (pc = "trace" /\ pc' = "pick") =>
        /\ start_point \in processed'
        /\ processed' \subseteq WindowBorderSet
        /\ borders_count <= Cardinality(processed')
        /\ (Len(boundary') < 3 => border_pixels' = border_pixels)
  /\ (pc = "pick" /\ stop = "budget" /\ Unprocessed /= {}) =>
        /\ pc' = "trace"
        /\ start_point' = FirstUnprocessed
        /\ current' = FirstUnprocessed

\* C11: generate_border terminates: every contour trace runs fewer than
\* 2 * (current border-pixel count) iterations, every pass of the outer loop
\* marks a previously unprocessed border pixel (also when the contour is
\* dropped and border_pixels is left as it was), and after a budget
\* exhaustion the outer loop goes on with the next unprocessed border pixel.
C11_TracerTermination == [][TerminationStep]_vars

\* A further pass runs from an unprocessed pixel after a pass that ended on
\* the budget.
C11_Witness ==
  /\ pc = "trace"
  /\ stop = "budget"
  /\ borders_count >= 2
  /\ start_point \notin processed

\* ---------------------------------------------------------------- C12
\* n is the vector acc divided by its length: it points the way acc does
\* and is the primitive integer vector that stands for a unit vector.
UnitOf(n, acc) ==
  /\ \E g \in 1 .. Abs(acc.x) + Abs(acc.y) + Abs(acc.z) :
        acc.x = g * n.x /\ acc.y = g * n.y /\ acc.z = g * n.z
  /\ \A d \in 2 .. Abs(n.x) + Abs(n.y) + Abs(n.z) :
        ~(n.x % d = 0 /\ n.y % d = 0 /\ n.z % d = 0)

\* length(acc) <= 0.0001, with x and z in units of 1/40 and y in units of 1:
\* 100000000 * (x^2 + 1600 y^2 + z^2) <= 1600, which on integers is the
\* comparison with the integer part of 1600 / 100000000.
AtMostEpsilon(acc) ==
  acc.x * acc.x + 1600 * acc.y * acc.y + acc.z * acc.z <= 1600 \div 100000000

FallbackNeverTaken ==
  \A i \in Meshes :
    \A k \in 1 .. Len(returned[i].mesh.accumulated) :
      returned[i].mesh.accumulated[k].y >= 1

\* ---------------------------------------------------------------- C13
\* The expanded window of call r.
BoundsOf(r) == Bounds(r.start_x, r.start_z, chunk_size, heightmap)

\* The samples around lattice point (x, z) that lie inside the raster and
\* are non-void.
SurroundingSamples(x, z) ==
  { p \in {<<x - 1, z - 1>>, <<x, z - 1>>, <<x - 1, z>>, <<x, z>>} :
      /\ InRaster(heightmap, p[1], p[2])
      /\ get_pixel(heightmap, p[1], p[2]) /= VOID_HEIGHT }

RECURSIVE SumOver(_)
SumOver(S) ==
  IF S = {} THEN 0
  ELSE LET p == CHOOSE q \in S : TRUE
       IN  get_pixel(heightmap, p[1], p[2]) + SumOver(S \ {p})

\* C13: for every lattice point of the expanded window, ends included, a
\* vertex is created iff at least one of the four surrounding samples lies
\* inside the raster and is non-void, and its height is the mean of all such
\* samples times the height scale, also on the edge of the expanded window
\* where that edge is interior to the raster.
C13_VertexNeedRule ==
  \A i \in Meshes :
    LET r == returned[i]
        b == BoundsOf(r)
    IN  \A x \in b.esx .. b.eex : \A z \in b.esz .. b.eez :
          LET S == SurroundingSamples(x, z)
          IN  /\ <<x, z>> \in DOMAIN r.mesh.vertex_map <=> S /= {}
              /\ <<x, z>> \in DOMAIN r.mesh.vertex_map =>
                    r.mesh.positions[r.mesh.vertex_map[<<x, z>>] + 1].y12
                      * Cardinality(S) = 12 * SumOver(S)

\* ---------------------------------------------------------------- C14
\* The cells of the expanded window of call r that are non-void and have a
\* vertex at each of their four corners.
FullCells(r) ==
  LET b  == BoundsOf(r)
      vm == r.mesh.vertex_map
  IN  { c \in (b.esx .. b.eex - 1) \X (b.esz .. b.eez - 1) :
          /\ InRaster(heightmap, c[1], c[2])
          /\ get_pixel(heightmap, c[1], c[2]) /= VOID_HEIGHT
          /\ { <<c[1], c[2]>>, <<c[1] + 1, c[2]>>,
               <<c[1], c[2] + 1>>, <<c[1] + 1, c[2] + 1>> } \subseteq DOMAIN vm }

\* The corner vertices of cell c in the mesh of call r.
CornerTL(r, c) == r.mesh.vertex_map[<<c[1], c[2]>>]
CornerTR(r, c) == r.mesh.vertex_map[<<c[1] + 1, c[2]>>]
CornerBL(r, c) == r.mesh.vertex_map[<<c[1], c[2] + 1>>]
CornerBR(r, c) == r.mesh.vertex_map[<<c[1] + 1, c[2] + 1>>]

\* The groups of six consecutive indices of idx equal to six.
Groups(idx, six) ==
  { k \in 1 .. (Len(idx) \div 6) : SubSeq(idx, 6 * k - 5, 6 * k) = six }

\* Every full cell has the six indices Six(r, c) exactly once in all_indices
\* and, when it lies in the original window, exactly once in the final
\* index buffer, and the buffers hold nothing else.
EmitsExactly(Six(_, _)) ==
  \A i \in Meshes :
    LET r == returned[i]
        own == { c \in FullCells(r) : InWindow(r, c) }
    IN  /\ Len(r.mesh.all_indices) = 6 * Cardinality(FullCells(r))
        /\ Len(r.mesh.indices) = 6 * Cardinality(own)
        /\ \A c \in FullCells(r) :
              Cardinality(Groups(r.mesh.all_indices, Six(r, c))) = 1
        /\ \A c \in own :
              Cardinality(Groups(r.mesh.indices, Six(r, c))) = 1

ClaimedOrder(r, c) ==
  <<CornerTL(r, c), CornerBL(r, c), CornerTR(r, c),
    CornerTR(r, c), CornerBL(r, c), CornerBR(r, c)>>

EmittedOrder(r, c) ==
  <<CornerTR(r, c), CornerTL(r, c), CornerBR(r, c),
    CornerTL(r, c), CornerBL(r, c), CornerBR(r, c)>>

\* C14 as stated: a full cell emits exactly the triangles (top-left,
\* bottom-left, top-right) and (top-right, bottom-left, bottom-right), in
\* this vertex order, split along the top-right/bottom-left diagonal.
C14_SplitTopRightBottomLeft == EmitsExactly(ClaimedOrder)

\* C14 amended: a full cell emits exactly the triangles (top-right, top-left,
\* bottom-right) and (top-left, bottom-left, bottom-right), in this vertex
\* order, split along the top-left/bottom-right diagonal.
C14_FullCellTriangulation == EmitsExactly(EmittedOrder)

\* A returned mesh with two cells in its final index buffer and a cell of
\* the ring in all_indices only.
C14_Witness ==
  \E i \in Meshes :
    /\ Len(returned[i].mesh.indices) >= 12
    /\ Len(returned[i].mesh.all_indices) > Len(returned[i].mesh.indices)

\* ---------------------------------------------------------------- C15
\* Twice the signed area of triangle t of idx in the (x, z) plane.  Seen from
\* +Y in a right-handed frame the plane shows x to the right and z down the
\* page, so the area is negative exactly when the three vertices run
\* counter-clockwise for that viewer.
SignedArea2(t, idx, pos) ==
  LET p0 == pos[idx[3 * t - 2] + 1]
      p1 == pos[idx[3 * t - 1] + 1]
      p2 == pos[idx[3 * t] + 1]
  IN  (p1.x - p0.x) * (p2.z - p0.z) - (p2.x - p0.x) * (p1.z - p0.z)

TouchCount(idx, k) ==
  Cardinality({ t \in 1 .. (Len(idx) \div 3) : Touches(t, idx, k) })

\* C15: every triangle of all_indices and of the final index buffer has a
\* face cross product (p1 - p0) x (p2 - p0) whose Y component is exactly +1,
\* so the accumulated normal of a vertex has Y equal to the number of
\* expanded-window triangles touching it, and every output triangle is
\* counter-clockwise as seen from +Y.
C15_UpwardWinding ==
  \A i \in Meshes :
    LET m == returned[i].mesh
    IN  /\ \A t \in 1 .. (Len(m.all_indices) \div 3) :
              FaceNormal(t, m.all_indices, m.positions).y = 1
        /\ \A t \in 1 .. (Len(m.indices) \div 3) :
              /\ FaceNormal(t, m.indices, m.positions).y = 1
              /\ SignedArea2(t, m.indices, m.positions) < 0
        /\ \A k \in 1 .. Len(m.positions) :
              m.accumulated[k].y = TouchCount(m.all_indices, k - 1)

\* A returned mesh with a vertex touched by six triangles, over heights that
\* are not all equal.
C15_Witness ==
  \E i \in Meshes :
    LET m == returned[i].mesh
    IN  /\ \E k \in 1 .. Len(m.positions) : m.accumulated[k].y = 6
        /\ \E k \in 1 .. Len(m.positions) : m.accumulated[k].x /= 0

\* ---------------------------------------------------------------- C16
NonVoidPixels ==
  { p \in Coords(heightmap.w, heightmap.h) :
      get_pixel(heightmap, p[1], p[2]) /= VOID_HEIGHT }

\* The raster holds exactly two non-void pixels, 8-adjacent to each other
\* and both inside the window being traced.
TwoPixelIsland ==
  /\ Cardinality(NonVoidPixels) = 2
  /\ \A p \in NonVoidPixels, q \in NonVoidPixels :
        Abs(p[1] - q[1]) <= 1 /\ Abs(p[2] - q[2]) <= 1
  /\ NonVoidPixels \subseteq (start_x .. end_x - 1) \X (start_z .. end_z - 1)

NoRepeats(bnd) ==
  \A i \in 1 .. Len(bnd), j \in 1 .. Len(bnd) :
    i /= j => bnd[i].position /= bnd[j].position

\* One step of the tracer obeys the closure rule as stated: an iteration
\* that finds the start pixel as the next qualifying pixel with at least 2
\* points in the contour ends the trace, no contour holds a pixel twice, and
\* the trace of a two-pixel island ends with 2 points and keeps no contour.
ClosureStep ==
  /\ pc = "trace" /\ max_iterations - 1 /= 0 =>
        LET dir == NextDirection(heightmap, current, prev_direction,
                                 start_x, start_z, end_x, end_z)
        IN  (/\ dir /= 8
             /\ Step(current, dir) = start_point
             /\ Len(Pushed) >= 2) => (pc' = "pick" /\ stop' = "closed")
  /\ NoRepeats(boundary')
  /\ (pc = "trace" /\ pc' = "pick" /\ TwoPixelIsland) =>
        (Len(boundary') = 2 /\ contours' = << >>)

\* C16: a contour trace stops as soon as the next qualifying pixel is the
\* start pixel and the contour already holds at least 2 points, so a traced
\* contour never contains its start pixel, or any pixel, more than once; for
\* a two-pixel island the trace ends with 2 points and the contour is
\* discarded.
C16_ClosureStopRule == [][ClosureStep]_vars

\* ---------------------------------------------------------------- C17
EightAdjacent(p, q) ==
  p /= q /\ Abs(p[1] - q[1]) <= 1 /\ Abs(p[2] - q[2]) <= 1

\* What holds of the tracer's state at every moment of a call; boundary is
\* looked at from the first pass of the call on.
CoverageState ==
  /\ (pc = "pick" /\ borders_count = 0) =>
        /\ { border_pixels[i] : i \in 1 .. Len(border_pixels) } = WindowBorderSet
        /\ Cardinality(WindowBorderSet) = Len(border_pixels)
  /\ BorderReturning => WindowBorderSet \subseteq processed
  /\ (pc = "trace" \/ (pc = "pick" /\ borders_count >= 1)) =>
        /\ \A i \in 1 .. Len(boundary) :
              /\ boundary[i].position \in WindowBorderSet
              /\ boundary[i].position \in processed
        /\ \A i \in 1 .. Len(boundary) - 1 :
              EightAdjacent(boundary[i].position, boundary[i + 1].position)

\* A pixel is marked processed only in the step that appends it to the
\* contour being traced.
CoverageStep ==
  /\ CoverageState'
  /\ (pc = "trace" /\ processed' /= processed) =>
        /\ Len(boundary') = Len(boundary) + 1
        /\ processed' = processed \cup {boundary'[Len(boundary')].position}

\* C17: the border pixels collected are exactly the non-void in-raster
\* pixels of the window with a 4-neighbour that is void or outside the
\* raster; when generate_border returns each of them has been appended to a
\* traced contour and marked processed; every point appended to a contour is
\* one of them, and consecutive contour points are 8-adjacent.
C17_BorderCoverage == [][CoverageStep]_vars

\* generate_border returns after three or more passes that kept two or more
\* contours and dropped one.
C17_Witness ==
  /\ BorderReturning
  /\ Len(contours) >= 2
  /\ borders_count > Len(contours)

\* ---------------------------------------------------------------- C18
\* The non-void raster samples of the original window of call r.
NonVoidWindowSamples(r) ==
  { p \in WindowSamples(r) : heightmap.px[p] /= VOID_HEIGHT }

\* The non-void raster samples of the expanded window of call r.
NonVoidExpandedSamples(r) ==
  LET b == BoundsOf(r)
  IN  { p \in (b.esx .. b.eex - 1) \X (b.esz .. b.eez - 1) :
          InRaster(heightmap, p[1], p[2]) /\ heightmap.px[p] /= VOID_HEIGHT }

\* C18: every non-void sample of the expanded window has its four corner
\* vertices in the lookup and emits exactly two triangles; a mesh is
\* returned iff the original window holds k >= 1 non-void in-raster
\* samples, the final index buffer then has exactly 6k entries, and the
\* return for an empty index buffer is never taken.
C18_AllCellsFull ==
  \A i \in 1 .. Len(returned) :
    LET r == returned[i]
        k == Cardinality(NonVoidWindowSamples(r))
    IN  /\ r.mesh.some <=> k >= 1
        /\ r.mesh.why /= "no_indices"
        /\ r.mesh.some =>
              /\ \A c \in NonVoidExpandedSamples(r) :
                    { <<c[1], c[2]>>, <<c[1] + 1, c[2]>>,
                      <<c[1], c[2] + 1>>, <<c[1] + 1, c[2] + 1>> }
                      \subseteq DOMAIN r.mesh.vertex_map
              /\ Len(r.mesh.all_indices)
                    = 6 * Cardinality(NonVoidExpandedSamples(r))
              /\ Len(r.mesh.indices) = 6 * k

\* A returned mesh whose window holds void and non-void samples and whose
\* ring holds a non-void sample, after a call that returned none.
C18_Witness ==
  \E i \in Meshes, j \in 1 .. Len(returned) :
    LET r == returned[i]
    IN  /\ ~returned[j].mesh.some
        /\ NonVoidWindowSamples(r) /= WindowSamples(r)
        /\ NonVoidWindowSamples(r) /= {}
        /\ Cardinality(NonVoidExpandedSamples(r))
              > Cardinality(NonVoidWindowSamples(r))

\* ---------------------------------------------------------------- C19
\* The neighbour a look-up of call c addresses, as integers.
Addressed(c, rel) ==
  <<c.x + RelativeOffset(c.direction, rel)[1],
    c.z + RelativeOffset(c.direction, rel)[2]>>

VoidOrAbsent(p) ==
  ~InRaster(heightmap, p[1], p[2]) \/ get_pixel(heightmap, p[1], p[2]) = VOID_HEIGHT

\* The look-up of call c that returned res for the relative coordinate rel:
\* a neighbour outside the raster gives None and no read, a neighbour inside
\* it is the one pixel read.
LookupRule(c, rel, res) ==
  LET n == Addressed(c, rel)
  IN  IF InRaster(heightmap, n[1], n[2])
      THEN res.some /\ res.read = {n} /\ res.value = get_pixel(heightmap, n[1], n[2])
      ELSE ~res.some /\ res.read = {}

\* C19: in border_generator a look-up whose neighbour lies outside the
\* raster (x or z negative, or >= width / height) returns None and counts as
\* void; it never reads another pixel of the raster in its place and never
\* reads out of bounds, so determine_border_type yields Line exactly when the
\* forward, right and left neighbours are all void or absent.
C19_OutOfRasterNeighbours ==
  pc = "make_borders" =>
    \A k \in 1 .. Len(border_calls) :
      LET c == border_calls[k]
      IN  /\ LookupRule(c, FORWARD, c.forward)
          /\ LookupRule(c, RIGHT, c.right)
          /\ LookupRule(c, LEFT, c.left)
          /\ c.border_type = "Line" <=>
                /\ VoidOrAbsent(Addressed(c, FORWARD))
                /\ VoidOrAbsent(Addressed(c, RIGHT))
                /\ VoidOrAbsent(Addressed(c, LEFT))
====
